---- MODULE Spec2Model ----
(***************************************************************************)
(* The event dispatcher of mididings (src/engine.cc): scene table, per-    *)
(* event pipeline, note-on / sustain tracking tables, the scene-switch     *)
(* state machine and the locking protocol between the real-time thread,    *)
(* the asynchronous caller and the control thread.                         *)
(***************************************************************************)
EXTENDS Integers, Sequences, FiniteSets, TLC

(* ------------------------------------------------------------------ bounds *)
\* scene ids handed to add_scene are 0..MaxSceneId
MaxSceneId == 1
\* at most this many Scene objects are registered in total
MaxScenes == 2
\* output ports of the backend (_backend->num_out_ports())
NumOutPorts == 1

(* --------------------------------------------------------------- constants *)
NULL == <<>>
Threads == {"rt", "async", "ctl"}
NoScene == [patch |-> NULL, init_patch |-> NULL, exit_patch |-> NULL]

(* ------------------------------------------------------------------ events *)
\* MidiEvent: type, port, channel and the per-kind fields the engine reads
\* (ev.note.note, ev.note.velocity, ev.ctrl.param, ev.ctrl.value, ev.sysex).
\* via records the patches the event has been run through, in order.
MidiEvent(type, port, channel, n, vel, param, value) ==
    [type |-> type, port |-> port, channel |-> channel,
     note |-> [note |-> n, velocity |-> vel],
     ctrl |-> [param |-> param, value |-> value],
     sysex |-> <<>>, via |-> <<>>]

NoteOn(ch, n, vel)  == MidiEvent("NOTEON", 0, ch, n, vel, 0, 0)
NoteOff(ch, n)      == MidiEvent("NOTEOFF", 0, ch, n, 0, 0, 0)
Ctrl(ch, par, val)  == MidiEvent("CTRL", 0, ch, 0, 0, par, val)
PitchBend(ch, val)  == MidiEvent("PITCHBEND", 0, ch, 0, 0, 0, val)
Program(ch, val)    == MidiEvent("PROGRAM", 0, ch, 0, 0, 0, val)
dummy_ev            == MidiEvent("DUMMY", 0, 0, 0, 0, 0, 0)

Max(a, b) == IF a > b THEN a ELSE b
Min(a, b) == IF a < b THEN a ELSE b

PassThroughTypes ==
    {"POLY_AFTERTOUCH", "SYSCM_QFRAME", "SYSCM_SONGPOS", "SYSCM_SONGSEL",
     "SYSCM_TUNEREQ", "SYSRT_CLOCK", "SYSRT_START", "SYSRT_CONTINUE",
     "SYSRT_STOP", "SYSRT_SENSING", "SYSRT_RESET"}

\* Engine::sanitize_event: keep says whether the event survives, ev is the
\* event with its fields clamped in place.
sanitize_event(ev) ==
    IF ev.port < 0 \/ ev.port >= NumOutPorts THEN [keep |-> FALSE, ev |-> ev]
    ELSE IF ev.channel < 0 \/ ev.channel > 15 THEN [keep |-> FALSE, ev |-> ev]
    ELSE CASE ev.type \in {"NOTEON", "NOTEOFF"} ->
                IF ev.note.note < 0 \/ ev.note.note > 127
                THEN [keep |-> FALSE, ev |-> ev]
                ELSE LET c == [ev EXCEPT !.note.velocity =
                                            Max(0, Min(127, ev.note.velocity))]
                     IN  IF c.type = "NOTEON" /\ c.note.velocity < 0
                         THEN [keep |-> FALSE, ev |-> c]
                         ELSE [keep |-> TRUE, ev |-> c]
           [] ev.type = "CTRL" ->
                IF ev.ctrl.param < 0 \/ ev.ctrl.param > 127
                THEN [keep |-> FALSE, ev |-> ev]
                ELSE [keep |-> TRUE,
                      ev |-> [ev EXCEPT !.ctrl.value =
                                            Max(0, Min(127, ev.note.velocity))]]
           [] ev.type = "PITCHBEND" ->
                [keep |-> TRUE,
                 ev |-> [ev EXCEPT !.ctrl.value =
                                            Max(-8192, Min(8191, ev.ctrl.value))]]
           [] ev.type = "AFTERTOUCH" ->
                [keep |-> TRUE,
                 ev |-> [ev EXCEPT !.ctrl.value =
                                            Max(0, Min(127, ev.note.velocity))]]
           [] ev.type = "PROGRAM" ->
                IF ev.ctrl.value < 0 \/ ev.ctrl.value > 127
                THEN [keep |-> FALSE, ev |-> ev]
                ELSE [keep |-> TRUE, ev |-> ev]
           [] ev.type = "SYSEX" ->
                IF Len(ev.sysex) < 2 \/ ev.sysex[1] # 240
                        \/ ev.sysex[Len(ev.sysex)] # 247
                THEN [keep |-> FALSE, ev |-> ev]
                ELSE [keep |-> TRUE, ev |-> ev]
           [] ev.type \in PassThroughTypes -> [keep |-> TRUE, ev |-> ev]
           [] ev.type = "DUMMY" -> [keep |-> FALSE, ev |-> ev]
           [] OTHER -> [keep |-> FALSE, ev |-> ev]

(* ----------------------------------------------------------------- patches *)
\* A patch is a handle <<role, scene id, subscene index>>; the wrapper patches
\* are <<"ctrl">>, <<"pre">>, <<"post">>, the engine's own one <<"sanitize">>.
sanitize_patch == <<"sanitize">>

\* What one patch does to one event: the sanitize patch applies
\* sanitize_event and drops what it rejects; an init (exit) patch replaces
\* the event by Ctrl 121 (120); every other patch passes the event on.
\* Each patch leaves its handle in the event's via.
Unit(p, ev) ==
    IF p = sanitize_patch
    THEN LET s == sanitize_event(ev)
         IN  IF s.keep THEN <<s.ev>> ELSE <<>>
    ELSE IF p[1] = "init"
    THEN << [Ctrl(0, 121, 0) EXCEPT !.via = Append(ev.via, p)] >>
    ELSE IF p[1] = "exit"
    THEN << [Ctrl(0, 120, 0) EXCEPT !.via = Append(ev.via, p)] >>
    ELSE << [ev EXCEPT !.via = Append(@, p)] >>

RECURSIVE Apply(_, _)
Apply(p, evs) ==
    IF evs = <<>> THEN <<>> ELSE Unit(p, Head(evs)) \o Apply(p, Tail(evs))

\* Patch::process(buffer, r) with r the range from position it to the end
PatchProcess(p, buf, it) ==
    SubSeq(buf, 1, it - 1) \o Apply(p, SubSeq(buf, it, Len(buf)))

(* ------------------------------------------------------------------- state *)
VARIABLES
    scenes,            \* _scenes: scene id -> sequence of Scene (its subscenes)
    ctrl_patch,        \* _ctrl_patch
    pre_patch,         \* _pre_patch
    post_patch,        \* _post_patch
    current_patch,     \* _current_patch
    current_scene,     \* _current_scene
    current_subscene,  \* _current_subscene
    new_scene,         \* _new_scene
    new_subscene,      \* _new_subscene
    noteon_patches,    \* _noteon_patches: note key -> patch
    sustain_patches,   \* _sustain_patches: sustain key -> patch
    buffer,            \* _buffer
    pe_buffer,         \* process_event's local buffer
    v,                 \* process_event's result vector
    patch,             \* process's local: the patch get_matching_patch returned
    scene_num,         \* process_scene_switch's local
    subscene_num,      \* process_scene_switch's local
    scene,             \* process_scene_switch's local: the target Scene
    sw_subscene,       \* per thread: subscene argument of its switch_scene call
    mutex,             \* _process_mutex: its owner, or "none"
    pc,                \* per thread: where it is
    fault,             \* "none", or how the process died
    h_noteon,          \* history: note key -> the patch that was current when
                       \* the latest NoteOn with that key was dispatched
    h_sustain,         \* history: sustain key -> the patch that was current
                       \* when the latest sustain press (param 64, value
                       \* 127) with that key was dispatched
    h_req,             \* history: the pending fields as the control thread's
                       \* last switch_scene call left them
    h_phase            \* history: "requested" once that call has returned,
                       \* "cycle" during the first cycle begun after it

vars == <<scenes, ctrl_patch, pre_patch, post_patch, current_patch,
          current_scene, current_subscene, new_scene, new_subscene,
          noteon_patches, sustain_patches, buffer, pe_buffer, v, patch,
          scene_num, subscene_num, scene, sw_subscene, mutex, pc, fault,
          h_noteon, h_sustain, h_req, h_phase>>

config_vars == <<scenes, ctrl_patch, pre_patch, post_patch>>
current_vars == <<current_patch, current_scene, current_subscene>>
pending_vars == <<new_scene, new_subscene>>
tracking_vars == <<noteon_patches, sustain_patches>>
local_vars == <<scene_num, subscene_num, scene>>
hist_vars == <<h_noteon, h_sustain, h_req, h_phase>>

\* Engine::Engine
Init ==
    /\ scenes = <<>>
    /\ ctrl_patch = NULL /\ pre_patch = NULL /\ post_patch = NULL
    /\ current_patch = NULL
    /\ current_scene = -1 /\ current_subscene = -1
    /\ new_scene = -1 /\ new_subscene = -1
    /\ noteon_patches = <<>> /\ sustain_patches = <<>>
    /\ buffer = <<>> /\ pe_buffer = <<>> /\ v = <<>>
    /\ patch = NULL
    /\ scene_num = -1 /\ subscene_num = -1 /\ scene = NoScene
    /\ sw_subscene = [t \in Threads |-> -1]
    /\ mutex = "none"
    /\ pc = [t \in Threads |-> CASE t = "rt" -> "off"
                                 [] t = "async" -> "idle"
                                 [] t = "ctl" -> "setup"]
    /\ fault = "none"
    /\ h_noteon = <<>> /\ h_sustain = <<>>
    /\ h_req = <<-1, -1>> /\ h_phase = "none"

Running == fault = "none"

has_scene(n) == n \in DOMAIN scenes

NumScenes ==
    LET RECURSIVE Sum(_)
        Sum(S) == IF S = {} THEN 0
                  ELSE LET x == CHOOSE y \in S : TRUE
                       IN  Len(scenes[x]) + Sum(S \ {x})
    IN  Sum(DOMAIN scenes)

\* Engine::add_scene; the new Scene's patches are fresh objects
add_scene(i, has_init, has_exit) ==
    /\ Running /\ pc["ctl"] = "setup"
    /\ NumScenes < MaxScenes
    /\ LET old == IF has_scene(i) THEN scenes[i] ELSE <<>>
           n   == Len(old)
           s   == [patch |-> <<"patch", i, n>>,
                   init_patch |-> IF has_init THEN <<"init", i, n>> ELSE NULL,
                   exit_patch |-> IF has_exit THEN <<"exit", i, n>> ELSE NULL]
       IN  scenes' = [j \in DOMAIN scenes \cup {i} |->
                          IF j = i THEN Append(old, s) ELSE scenes[j]]
    /\ UNCHANGED <<ctrl_patch, pre_patch, post_patch, current_vars,
                   pending_vars, tracking_vars, buffer, pe_buffer, v, patch,
                   local_vars, sw_subscene, mutex, pc, fault>>

\* Engine::set_processing; the three assertions allow it once
set_processing(c, p, q) ==
    /\ Running /\ pc["ctl"] = "setup"
    /\ ctrl_patch = NULL /\ pre_patch = NULL /\ post_patch = NULL
    /\ ctrl_patch' = c /\ pre_patch' = p /\ post_patch' = q
    /\ <<c, p, q>> # <<NULL, NULL, NULL>>
    /\ UNCHANGED <<scenes, current_vars, pending_vars, tracking_vars, buffer,
                   pe_buffer, v, patch, local_vars, sw_subscene, mutex, pc,
                   fault>>

\* the configuration is complete; the engine may be used off-line
\* (process_event) or started
SetupDone ==
    /\ Running /\ pc["ctl"] = "setup"
    /\ pc' = [pc EXCEPT !["ctl"] = "ready"]
    /\ UNCHANGED <<config_vars, current_vars, pending_vars, tracking_vars,
                   buffer, pe_buffer, v, patch, local_vars, sw_subscene,
                   mutex, fault>>

\* Engine::start: the backend will call run_init once, then run_cycle
start ==
    /\ Running /\ pc["ctl"] = "ready" /\ pc["rt"] = "off"
    /\ pc' = [pc EXCEPT !["rt"] = "init"]
    /\ UNCHANGED <<config_vars, current_vars, pending_vars, tracking_vars,
                   buffer, pe_buffer, v, patch, local_vars, sw_subscene,
                   mutex, fault>>

(* --------------------------------------------------------- tracking tables *)
make_notekey(ev) == <<ev.channel, ev.note.note, ev.port>>
make_sustainkey(ev) == <<ev.channel, ev.port>>

\* insert of the standard associative containers: an existing entry stays
insert(m, k, p) ==
    IF k \in DOMAIN m THEN m
    ELSE [x \in DOMAIN m \cup {k} |-> IF x = k THEN p ELSE m[x]]

\* erase that removes nothing
erase_nothing(m, k) == m

erase(m, k) == [x \in DOMAIN m \ {k} |-> m[x]]

\* Engine::get_matching_patch: the patch to dispatch ev through and the
\* tracking tables as the call leaves them
get_matching_patch(ev) ==
    IF ev.type = "NOTEON"
    THEN [patch |-> current_patch,
          noteon |-> insert(noteon_patches, make_notekey(ev), current_patch),
          sustain |-> sustain_patches]
    ELSE IF ev.type = "NOTEOFF"
    THEN IF make_notekey(ev) \in DOMAIN noteon_patches
         THEN [patch |-> noteon_patches[make_notekey(ev)],
               noteon |-> erase(noteon_patches, make_notekey(ev)),
               sustain |-> sustain_patches]
         ELSE [patch |-> current_patch, noteon |-> noteon_patches,
               sustain |-> sustain_patches]
    ELSE IF ev.type = "CTRL" /\ ev.ctrl.param = 64 /\ ev.ctrl.value = 127
    THEN [patch |-> current_patch, noteon |-> noteon_patches,
          sustain |-> insert(sustain_patches, make_sustainkey(ev),
                             current_patch)]
    ELSE IF ev.type = "CTRL" /\ ev.ctrl.param = 64 /\ ev.ctrl.value = 0
    THEN IF make_sustainkey(ev) \in DOMAIN sustain_patches
         THEN [patch |-> sustain_patches[make_sustainkey(ev)],
               noteon |-> noteon_patches,
               sustain |-> erase(sustain_patches, make_sustainkey(ev))]
         ELSE [patch |-> current_patch, noteon |-> noteon_patches,
               sustain |-> sustain_patches]
    ELSE [patch |-> current_patch, noteon |-> noteon_patches,
          sustain |-> sustain_patches]

(* ------------------------------------------------------ per-event pipeline *)
\* Engine::process on an empty buffer, up to and including the post patch:
\* the ctrl patch over its own copy, then the main copy (at position it)
\* through pre, the matched patch p and post
process_stages(ev, p) ==
    LET b1 == IF ctrl_patch # NULL
              THEN PatchProcess(ctrl_patch, <<ev>>, 1) ELSE <<>>
        it == Len(b1) + 1
        b2 == Append(b1, ev)
        b3 == IF pre_patch # NULL THEN PatchProcess(pre_patch, b2, it) ELSE b2
        b4 == PatchProcess(p, b3, it)
        b5 == IF post_patch # NULL THEN PatchProcess(post_patch, b4, it) ELSE b4
    IN  [buf |-> b5, it |-> it]

\* Engine::process(_buffer, ev): the last stage, _sanitize_patch->process(
\* _buffer, r), is given the buffer the range r belongs to
process(ev, p) ==
    LET s == process_stages(ev, p)
    IN  PatchProcess(sanitize_patch, s.buf, s.it)

\* run_switch_patch with the patch's output put before what the buffer
\* already holds
run_switch_patch_first(p, buf) ==
    LET b1 == PatchProcess(p, <<dummy_ev>>, 1)
        b2 == IF post_patch # NULL THEN PatchProcess(post_patch, b1, 1) ELSE b1
    IN  PatchProcess(sanitize_patch, b2, 1) \o buf

\* the dummy event of a scene switch through an init or exit patch p, then
\* post and sanitize, appended to buf
run_switch_patch(p, buf) ==
    LET it == Len(buf) + 1
        b1 == PatchProcess(p, Append(buf, dummy_ev), it)
        b2 == IF post_patch # NULL THEN PatchProcess(post_patch, b1, it) ELSE b1
    IN  PatchProcess(sanitize_patch, b2, it)

(* ------------------------------------------------------------ entry points *)
\* the buffer process_scene_switch was handed by thread t: process_event
\* (the control thread) passes its local one, the others pass _buffer
BufOf(t) == IF t = "ctl" THEN pe_buffer ELSE buffer
SetBuf(t, b) ==
    IF t = "ctl" THEN pe_buffer' = b /\ buffer' = buffer
                 ELSE buffer' = b /\ pe_buffer' = pe_buffer
\* where process_scene_switch returns to
RetLabel(t) == IF t = "ctl" THEN "pe_copy" ELSE "output"

At(t, label) == Running /\ pc[t] = label
Goto(t, label) == pc' = [pc EXCEPT ![t] = label]

\* _scenes.begin()->first
FirstSceneId == CHOOSE i \in DOMAIN scenes : \A j \in DOMAIN scenes : i <= j

\* a Scene read through an index outside its vector: any Scene object
WildScenes ==
    UNION {{scenes[i][n] : n \in DOMAIN scenes[i]} : i \in DOMAIN scenes}
WILD == <<"wild">>

\* Engine::run_init up to the call of process_scene_switch.  With an empty
\* table and initial_scene = -1 the begin() iterator is dereferenced: the
\* read faults or yields a value that then fails the assertion.
run_init(initial_scene, initial_subscene) ==
    /\ At("rt", "init") /\ mutex = "none"
    /\ mutex' = "rt"
    /\ IF initial_scene = -1 /\ DOMAIN scenes = {}
       THEN /\ fault' \in {"segv", "assert"}
            /\ UNCHANGED <<pc, buffer, pending_vars>>
       ELSE LET first == IF initial_scene = -1 THEN FirstSceneId
                                               ELSE initial_scene
            IN  IF ~has_scene(first)
                THEN /\ fault' = "assert"
                     /\ UNCHANGED <<pc, buffer, pending_vars>>
                ELSE /\ buffer' = <<>>
                     /\ new_scene' = first
                     /\ new_subscene' = initial_subscene
                     /\ Goto("rt", "pss_check")
                     /\ fault' = fault
    /\ UNCHANGED <<config_vars, current_vars, tracking_vars, pe_buffer, v,
                   patch, local_vars, sw_subscene>>

\* Engine::run_cycle for one inbound event, up to the call of
\* process_scene_switch: lock, clear, process(_buffer, ev)
run_cycle(ev) ==
    /\ At("rt", "idle") /\ mutex = "none"
    /\ mutex' = "rt"
    /\ LET m == get_matching_patch(ev)
       IN  /\ noteon_patches' = m.noteon
           /\ sustain_patches' = m.sustain
           /\ patch' = m.patch
           /\ IF m.patch \in {NULL, WILD}
              THEN /\ fault' = "segv"
                   /\ buffer' = <<>>
                   /\ pc' = pc
              ELSE /\ buffer' = process(ev, m.patch)
                   /\ Goto("rt", "pss_check")
                   /\ fault' = fault
    /\ UNCHANGED <<config_vars, current_vars, pending_vars, pe_buffer, v,
                   local_vars, sw_subscene>>

\* Engine::run_async, the test made before the mutex is taken
run_async_check ==
    /\ At("async", "idle")
    /\ new_scene # -1 \/ new_subscene # -1
    /\ Goto("async", "lock")
    /\ UNCHANGED <<config_vars, current_vars, pending_vars, tracking_vars,
                   buffer, pe_buffer, v, patch, local_vars, sw_subscene,
                   mutex, fault>>

\* Engine::run_async: lock, clear, up to the call of process_scene_switch
run_async_lock ==
    /\ At("async", "lock") /\ mutex = "none"
    /\ mutex' = "async"
    /\ buffer' = <<>>
    /\ Goto("async", "pss_check")
    /\ UNCHANGED <<config_vars, current_vars, pending_vars, tracking_vars,
                   pe_buffer, v, patch, local_vars, sw_subscene, fault>>

\* _backend->output_events(_buffer.begin(), _buffer.end()) and the release of
\* the mutex, at the end of run_init, of a cycle and of run_async.  The
\* backend takes the events of _buffer in the state before this step; what
\* stays in _buffer is never read again (run_init, run_cycle and run_async
\* clear it before they use it), so the model drops it here.
output_events(t) ==
    /\ At(t, "output") /\ mutex = t
    /\ mutex' = "none"
    /\ patch' = NULL
    /\ buffer' = <<>>
    /\ Goto(t, "idle")
    /\ UNCHANGED <<config_vars, current_vars, pending_vars, tracking_vars,
                   pe_buffer, v, local_vars, sw_subscene, fault>>

\* Engine::process_event: lock, and adopt scene 0's first patch when no
\* patch is current.  Without a scene 0 the end() iterator is dereferenced:
\* the read faults or yields a stray pointer.
process_event_lock ==
    /\ At("ctl", "ready") /\ mutex = "none"
    /\ mutex' = "ctl"
    /\ IF current_patch # NULL
       THEN /\ UNCHANGED <<current_patch, fault>>
            /\ Goto("ctl", "pe_process")
       ELSE IF has_scene(0)
       THEN /\ current_patch' = scenes[0][1].patch
            /\ fault' = fault
            /\ Goto("ctl", "pe_process")
       ELSE \/ fault' = "segv" /\ UNCHANGED <<current_patch, pc>>
            \/ /\ current_patch' = WILD
               /\ fault' = fault
               /\ Goto("ctl", "pe_process")
    /\ UNCHANGED <<config_vars, current_scene, current_subscene, pending_vars,
                   tracking_vars, buffer, pe_buffer, v, patch, local_vars,
                   sw_subscene>>

\* Engine::process_event: process(buffer, ev) on the local buffer.  The last
\* stage hands _buffer, not the local buffer, to the sanitize patch together
\* with a range of the local buffer.  What a range of one buffer does in
\* another is undefined: either the range's handles reach the local buffer's
\* events all the same (positional = FALSE), or they are positions, the
\* sanitize patch works on what _buffer holds at those positions (left-overs
\* that are never read again) and the local buffer's events stay as they are
\* (positional = TRUE).
process_event_process(ev, positional) ==
    /\ At("ctl", "pe_process") /\ mutex = "ctl"
    /\ LET m == get_matching_patch(ev)
       IN  /\ noteon_patches' = m.noteon
           /\ sustain_patches' = m.sustain
           /\ patch' = m.patch
           /\ IF m.patch \in {NULL, WILD}
              THEN /\ fault' = "segv"
                   /\ UNCHANGED <<buffer, pe_buffer, pc>>
              ELSE LET s == process_stages(ev, m.patch)
                   IN  /\ pe_buffer' =
                              IF positional THEN s.buf
                              ELSE PatchProcess(sanitize_patch, s.buf, s.it)
                       /\ buffer' = buffer
                       /\ Goto("ctl", "pss_check")
                       /\ fault' = fault
    /\ UNCHANGED <<config_vars, current_vars, pending_vars, v, local_vars,
                   sw_subscene, mutex>>

\* Engine::process_event: copy the buffer into the result, return it and
\* release the mutex
process_event_return ==
    /\ At("ctl", "pe_copy") /\ mutex = "ctl"
    /\ v' = pe_buffer
    /\ pe_buffer' = <<>>
    /\ patch' = NULL
    /\ mutex' = "none"
    /\ Goto("ctl", "pe_ret")
    /\ UNCHANGED <<config_vars, current_vars, pending_vars, tracking_vars,
                   buffer, local_vars, sw_subscene, fault>>

\* the caller has taken process_event's result
process_event_done ==
    /\ At("ctl", "pe_ret")
    /\ v' = <<>>
    /\ Goto("ctl", "ready")
    /\ UNCHANGED <<config_vars, current_vars, pending_vars, tracking_vars,
                   buffer, pe_buffer, patch, local_vars, sw_subscene, mutex,
                   fault>>

\* Engine::output_event: lock
output_event_lock ==
    /\ At("ctl", "ready") /\ mutex = "none"
    /\ mutex' = "ctl"
    /\ Goto("ctl", "oe")
    /\ UNCHANGED <<config_vars, current_vars, pending_vars, tracking_vars,
                   buffer, pe_buffer, v, patch, local_vars, sw_subscene,
                   fault>>

\* Engine::output_event: _backend->output_event(ev), unlock
output_event_send ==
    /\ At("ctl", "oe") /\ mutex = "ctl"
    /\ mutex' = "none"
    /\ Goto("ctl", "ready")
    /\ UNCHANGED <<config_vars, current_vars, pending_vars, tracking_vars,
                   buffer, pe_buffer, v, patch, local_vars, sw_subscene,
                   fault>>

\* Engine::switch_scene, lines 272-274.  Called by the control thread, or
\* by the thread that runs the scene-switch callback, from inside it.
switch_scene_scene(t, scene_arg, subscene_arg) ==
    /\ \/ t = "ctl" /\ At(t, "ready")
       \/ At(t, "pss_callback") /\ mutex = t
    /\ new_scene' = IF scene_arg # -1 THEN scene_arg ELSE new_scene
    /\ sw_subscene' = [sw_subscene EXCEPT ![t] = subscene_arg]
    /\ Goto(t, IF pc[t] = "ready" THEN "sw2" ELSE "cb_sw2")
    /\ UNCHANGED <<config_vars, current_vars, new_subscene, tracking_vars,
                   buffer, pe_buffer, v, patch, local_vars, mutex, fault>>

\* switch_scene_subscene that forgets the subscene it was asked for
switch_scene_subscene_lost(t) ==
    /\ At(t, "sw2") \/ At(t, "cb_sw2")
    /\ sw_subscene' = [sw_subscene EXCEPT ![t] = -1]
    /\ Goto(t, IF pc[t] = "sw2" THEN "ready" ELSE "pss_scene")
    /\ UNCHANGED <<config_vars, current_vars, pending_vars, tracking_vars,
                   buffer, pe_buffer, v, patch, local_vars, mutex, fault>>

\* Engine::switch_scene, lines 275-277, and its return
switch_scene_subscene(t) ==
    /\ At(t, "sw2") \/ At(t, "cb_sw2")
    /\ new_subscene' = IF sw_subscene[t] # -1 THEN sw_subscene[t]
                                              ELSE new_subscene
    /\ sw_subscene' = [sw_subscene EXCEPT ![t] = -1]
    /\ Goto(t, IF pc[t] = "sw2" THEN "ready" ELSE "pss_scene")
    /\ UNCHANGED <<config_vars, current_vars, new_scene, tracking_vars,
                   buffer, pe_buffer, v, patch, local_vars, mutex, fault>>

(* ------------------------------------------------ process_scene_switch *)
\* thread t is inside process_scene_switch, at label
InPss(t, label) == At(t, label) /\ mutex = t

\* line 284: nothing pending, return; lines 290-292: the callback is called
\* when more than one scene is registered
pss_check(t) ==
    /\ InPss(t, "pss_check")
    /\ IF new_scene = -1 /\ new_subscene = -1
       THEN Goto(t, RetLabel(t))
       ELSE IF Cardinality(DOMAIN scenes) > 1
       THEN Goto(t, "pss_callback")
       ELSE Goto(t, "pss_scene")
    /\ UNCHANGED <<config_vars, current_vars, pending_vars, tracking_vars,
                   buffer, pe_buffer, v, patch, local_vars, sw_subscene,
                   mutex, fault>>

\* scene_switch_callback returns without having called switch_scene
callback_return(t) ==
    /\ InPss(t, "pss_callback")
    /\ Goto(t, "pss_scene")
    /\ UNCHANGED <<config_vars, current_vars, pending_vars, tracking_vars,
                   buffer, pe_buffer, v, patch, local_vars, sw_subscene,
                   mutex, fault>>

\* line 299
pss_scene_num(t) ==
    /\ InPss(t, "pss_scene")
    /\ scene_num' = IF new_scene # -1 THEN new_scene ELSE current_scene
    /\ Goto(t, "pss_subscene")
    /\ UNCHANGED <<config_vars, current_vars, pending_vars, tracking_vars,
                   buffer, pe_buffer, v, patch, subscene_num, scene,
                   sw_subscene, mutex, fault>>

\* line 300
\* pss_subscene_num with the current subscene kept when none is requested
pss_subscene_num_keep(t) ==
    /\ InPss(t, "pss_subscene")
    /\ subscene_num' = IF new_subscene # -1 THEN new_subscene
                                            ELSE current_subscene
    /\ Goto(t, "pss_lookup")
    /\ UNCHANGED <<config_vars, current_vars, pending_vars, tracking_vars,
                   buffer, pe_buffer, v, patch, scene_num, scene,
                   sw_subscene, mutex, fault>>

pss_subscene_num(t) ==
    /\ InPss(t, "pss_subscene")
    /\ subscene_num' = IF new_subscene # -1 THEN new_subscene ELSE 0
    /\ Goto(t, "pss_lookup")
    /\ UNCHANGED <<config_vars, current_vars, pending_vars, tracking_vars,
                   buffer, pe_buffer, v, patch, scene_num, scene,
                   sw_subscene, mutex, fault>>

\* lines 302-309: the test compares the vector's size with subscene_num as
\* signed numbers and has no lower bound, so a negative subscene_num passes
\* it and indexes the vector out of bounds: the read faults or yields some
\* Scene
pss_lookup(t) ==
    /\ InPss(t, "pss_lookup")
    /\ IF has_scene(scene_num) /\ Len(scenes[scene_num]) > subscene_num
       THEN \/ /\ subscene_num >= 0
               /\ scene' = scenes[scene_num][subscene_num + 1]
               /\ Goto(t, "pss_exit")
               /\ fault' = fault
            \/ /\ subscene_num < 0
               /\ scene' \in WildScenes
               /\ Goto(t, "pss_exit")
               /\ fault' = fault
            \/ /\ subscene_num < 0
               /\ fault' = "segv"
               /\ UNCHANGED <<scene, pc>>
       ELSE /\ Goto(t, "pss_clear")
            /\ UNCHANGED <<scene, fault>>
    /\ UNCHANGED <<config_vars, current_vars, pending_vars, tracking_vars,
                   buffer, pe_buffer, v, patch, scene_num, subscene_num,
                   sw_subscene, mutex>>

\* the Scenes that _scenes.find(_current_scene)->second[_current_subscene]
\* can yield: the one at that place, or, out of bounds, some Scene
PrevScenes ==
    IF has_scene(current_scene) /\ current_subscene >= 0
            /\ current_subscene < Len(scenes[current_scene])
    THEN {scenes[current_scene][current_subscene + 1]}
    ELSE WildScenes

\* pss_exit with the exit patch left out
pss_exit_skip(t) ==
    /\ InPss(t, "pss_exit")
    /\ Goto(t, "pss_init")
    /\ UNCHANGED <<config_vars, current_vars, pending_vars, tracking_vars,
                   buffer, pe_buffer, v, patch, local_vars, sw_subscene,
                   mutex, fault>>

\* lines 311-330: the exit patch of the still current subscene
pss_exit(t) ==
    /\ InPss(t, "pss_exit")
    /\ IF current_scene # -1
       THEN \E prev_scene \in PrevScenes :
                IF prev_scene.exit_patch # NULL
                THEN SetBuf(t, run_switch_patch(prev_scene.exit_patch, BufOf(t)))
                ELSE UNCHANGED <<buffer, pe_buffer>>
       ELSE UNCHANGED <<buffer, pe_buffer>>
    /\ Goto(t, "pss_init")
    /\ UNCHANGED <<config_vars, current_vars, pending_vars, tracking_vars,
                   v, patch, local_vars, sw_subscene, mutex, fault>>

\* lines 332-345: the init patch of the target subscene
pss_init(t) ==
    /\ InPss(t, "pss_init")
    /\ IF scene.init_patch # NULL
       THEN SetBuf(t, run_switch_patch(scene.init_patch, BufOf(t)))
       ELSE UNCHANGED <<buffer, pe_buffer>>
    /\ Goto(t, "pss_store")
    /\ UNCHANGED <<config_vars, current_vars, pending_vars, tracking_vars,
                   v, patch, local_vars, sw_subscene, mutex, fault>>

\* lines 347-352
pss_store(t) ==
    /\ InPss(t, "pss_store")
    /\ current_patch' = scene.patch
    /\ current_scene' = scene_num
    /\ current_subscene' = subscene_num
    /\ Goto(t, "pss_clear")
    /\ UNCHANGED <<config_vars, pending_vars, tracking_vars, buffer,
                   pe_buffer, v, patch, local_vars, sw_subscene, mutex,
                   fault>>

\* line 356
pss_clear_scene(t) ==
    /\ InPss(t, "pss_clear")
    /\ new_scene' = -1
    /\ Goto(t, "pss_clear2")
    /\ UNCHANGED <<config_vars, current_vars, new_subscene, tracking_vars,
                   buffer, pe_buffer, v, patch, local_vars, sw_subscene,
                   mutex, fault>>

\* line 357 and the return; the locals are gone
pss_clear_subscene(t) ==
    /\ InPss(t, "pss_clear2")
    /\ new_subscene' = -1
    /\ scene_num' = -1 /\ subscene_num' = -1 /\ scene' = NoScene
    /\ Goto(t, RetLabel(t))
    /\ UNCHANGED <<config_vars, current_vars, new_scene, tracking_vars,
                   buffer, pe_buffer, v, patch, sw_subscene, mutex, fault>>

(* ------------------------------------------------------------------ inputs *)
\* scene ids and subscene indices the callers pass: -1, what add_scene may
\* have registered (a table that lacks some of it makes the rest invalid)
SceneArgs == -1 .. MaxSceneId
SubsceneArgs == -1 .. MaxScenes - 1

\* Program 200 is an event the sanitize patch drops
Events == {NoteOn(0, 60, 100), NoteOff(0, 60), Program(0, 200)}

(* ---------------------------------------------------------- specifications *)
\* a step that is not recorded in the history variables
NoHist(A) == A /\ UNCHANGED hist_vars

\* Spec: the real-time thread (run_init, then cycles) and the control
\* thread's switch_scene calls, which take no lock and so interleave with
\* every step of process_scene_switch; the callback may call switch_scene.
\* A Scene is registered with both an init and an exit patch, or with none.
Next ==
    \/ \E i \in 0 .. MaxSceneId, rites \in BOOLEAN :
            NoHist(add_scene(i, rites, rites))
    \/ NoHist(set_processing(<<"ctrl">>, <<"pre">>, <<"post">>))
    \/ NoHist(SetupDone)
    \/ NoHist(start)
    \/ \E s \in SceneArgs, ss \in SubsceneArgs : NoHist(run_init(s, ss))
    \/ \E ev \in Events : NoHist(run_cycle(ev))
    \/ NoHist(output_events("rt"))
    \/ \E t \in {"rt", "ctl"}, s \in SceneArgs, ss \in SubsceneArgs :
            NoHist(switch_scene_scene(t, s, ss))
    \/ \E t \in {"rt", "ctl"} : NoHist(switch_scene_subscene(t))
    \/ NoHist(pss_check("rt"))
    \/ NoHist(callback_return("rt"))
    \/ NoHist(pss_scene_num("rt"))
    \/ NoHist(pss_subscene_num("rt"))
    \/ NoHist(pss_lookup("rt"))
    \/ NoHist(pss_exit("rt"))
    \/ NoHist(pss_init("rt"))
    \/ NoHist(pss_store("rt"))
    \/ NoHist(pss_clear_scene("rt"))
    \/ NoHist(pss_clear_subscene("rt"))

Spec == Init /\ [][Next]_vars

\* SpecSwitch: the real-time thread and switch_scene as in Spec, with no
\* ctrl, pre or post patch and one kind of inbound event.
SwitchEvents == {Program(0, 1)}

NextSwitch ==
    \/ \E i \in 0 .. MaxSceneId, rites \in BOOLEAN :
            NoHist(add_scene(i, rites, rites))
    \/ NoHist(SetupDone)
    \/ NoHist(start)
    \/ \E s \in SceneArgs, ss \in SubsceneArgs : NoHist(run_init(s, ss))
    \/ \E ev \in SwitchEvents : NoHist(run_cycle(ev))
    \/ NoHist(output_events("rt"))
    \/ \E t \in {"rt", "ctl"}, s \in SceneArgs, ss \in SubsceneArgs :
            NoHist(switch_scene_scene(t, s, ss))
    \/ \E t \in {"rt", "ctl"} : NoHist(switch_scene_subscene(t))
    \/ NoHist(pss_check("rt"))
    \/ NoHist(callback_return("rt"))
    \/ NoHist(pss_scene_num("rt"))
    \/ NoHist(pss_subscene_num("rt"))
    \/ NoHist(pss_lookup("rt"))
    \/ NoHist(pss_exit("rt"))
    \/ NoHist(pss_init("rt"))
    \/ NoHist(pss_store("rt"))
    \/ NoHist(pss_clear_scene("rt"))
    \/ NoHist(pss_clear_subscene("rt"))

SpecSwitch == Init /\ [][NextSwitch]_vars

\* SpecOffline: the control thread alone, before any start: process_event,
\* output_event and switch_scene, the callback run by process_event's
\* process_scene_switch.  Subscene arguments include -2, events include a
\* NoteOn on port -1.
OfflineSubsceneArgs == -2 .. MaxScenes - 1
OfflineEvents == Events \cup {[NoteOn(0, 60, 100) EXCEPT !.port = -1]}

NextOffline ==
    \/ \E i \in 0 .. MaxSceneId, rites \in BOOLEAN :
            NoHist(add_scene(i, rites, rites))
    \/ NoHist(set_processing(<<"ctrl">>, <<"pre">>, <<"post">>))
    \/ NoHist(SetupDone)
    \/ NoHist(process_event_lock)
    \/ \E ev \in OfflineEvents, positional \in BOOLEAN :
            NoHist(process_event_process(ev, positional))
    \/ NoHist(process_event_return)
    \/ NoHist(process_event_done)
    \/ NoHist(output_event_lock)
    \/ NoHist(output_event_send)
    \/ \E s \in SceneArgs, ss \in OfflineSubsceneArgs :
            NoHist(switch_scene_scene("ctl", s, ss))
    \/ NoHist(switch_scene_subscene("ctl"))
    \/ NoHist(pss_check("ctl"))
    \/ NoHist(callback_return("ctl"))
    \/ NoHist(pss_scene_num("ctl"))
    \/ NoHist(pss_subscene_num("ctl"))
    \/ NoHist(pss_lookup("ctl"))
    \/ NoHist(pss_exit("ctl"))
    \/ NoHist(pss_init("ctl"))
    \/ NoHist(pss_store("ctl"))
    \/ NoHist(pss_clear_scene("ctl"))
    \/ NoHist(pss_clear_subscene("ctl"))

SpecOffline == Init /\ [][NextOffline]_vars

\* SpecAsync: the real-time thread, run_async on its own thread and the
\* control thread's switch_scene calls; scenes without init and exit patches,
\* one kind of inbound event.
AsyncEvents == {Program(0, 1)}

NextAsync ==
    \/ \E i \in 0 .. MaxSceneId : NoHist(add_scene(i, FALSE, FALSE))
    \/ NoHist(SetupDone)
    \/ NoHist(start)
    \/ \E s \in SceneArgs, ss \in SubsceneArgs : NoHist(run_init(s, ss))
    \/ \E ev \in AsyncEvents : NoHist(run_cycle(ev))
    \/ NoHist(run_async_check)
    \/ NoHist(run_async_lock)
    \/ \E t \in {"rt", "async"} : NoHist(output_events(t))
    \/ \E s \in SceneArgs, ss \in SubsceneArgs :
            NoHist(switch_scene_scene("ctl", s, ss))
    \/ NoHist(switch_scene_subscene("ctl"))
    \/ \E t \in {"rt", "async"} : NoHist(pss_check(t))
    \/ \E t \in {"rt", "async"} : NoHist(callback_return(t))
    \/ \E t \in {"rt", "async"} : NoHist(pss_scene_num(t))
    \/ \E t \in {"rt", "async"} : NoHist(pss_subscene_num(t))
    \/ \E t \in {"rt", "async"} : NoHist(pss_lookup(t))
    \/ \E t \in {"rt", "async"} : NoHist(pss_exit(t))
    \/ \E t \in {"rt", "async"} : NoHist(pss_init(t))
    \/ \E t \in {"rt", "async"} : NoHist(pss_store(t))
    \/ \E t \in {"rt", "async"} : NoHist(pss_clear_scene(t))
    \/ \E t \in {"rt", "async"} : NoHist(pss_clear_subscene(t))

SpecAsync == Init /\ [][NextAsync]_vars

\* SpecHist: the real-time thread and the control thread's switch_scene
\* calls, with the history variables kept: which patch was current at the
\* latest NoteOn of each key, and which request the control thread's last
\* switch_scene call made.  Scenes without init and exit patches; the
\* callback never calls switch_scene.
HistEvents == {NoteOn(0, 60, 100), NoteOff(0, 60)}

\* the subscene that the call switch_scene(req[1], req[2]) names exists, an
\* axis the call leaves open taken from the pending fields ns, nss, then
\* from the current scene and subscene 0
TargetExists(req, ns, nss) ==
    LET s == IF req[1] # -1 THEN req[1]
             ELSE IF ns # -1 THEN ns ELSE current_scene
        ss == IF req[2] # -1 THEN req[2]
              ELSE IF nss # -1 THEN nss ELSE 0
    IN  has_scene(s) /\ ss >= 0 /\ ss < Len(scenes[s])

HistCycle(ev) ==
    /\ run_cycle(ev)
    /\ h_noteon' =
          IF ev.type = "NOTEON"
          THEN [k \in DOMAIN h_noteon \cup {make_notekey(ev)} |->
                    IF k = make_notekey(ev) THEN current_patch
                                            ELSE h_noteon[k]]
          ELSE IF ev.type = "NOTEOFF"
          THEN [k \in DOMAIN h_noteon \ {make_notekey(ev)} |-> h_noteon[k]]
          ELSE h_noteon
    /\ h_sustain' =
          IF ev.type = "CTRL" /\ ev.ctrl.param = 64 /\ ev.ctrl.value = 127
          THEN [k \in DOMAIN h_sustain \cup {make_sustainkey(ev)} |->
                    IF k = make_sustainkey(ev) THEN current_patch
                                               ELSE h_sustain[k]]
          ELSE IF ev.type = "CTRL" /\ ev.ctrl.param = 64 /\ ev.ctrl.value = 0
          THEN [k \in DOMAIN h_sustain \ {make_sustainkey(ev)} |->
                    h_sustain[k]]
          ELSE h_sustain
    /\ h_phase' = IF h_phase = "requested" THEN "cycle" ELSE h_phase
    /\ h_req' = h_req

HistOutput ==
    /\ output_events("rt")
    /\ h_phase' = IF h_phase = "cycle" THEN "none" ELSE h_phase
    /\ h_req' = IF h_phase = "cycle" THEN <<-1, -1>> ELSE h_req
    /\ UNCHANGED <<h_noteon, h_sustain>>

\* the control thread calls switch_scene(s, ss)
HistSwitchCall(s, ss) ==
    /\ switch_scene_scene("ctl", s, ss)
    /\ h_req' = <<s, ss>>
    /\ h_phase' = "calling"
    /\ UNCHANGED <<h_noteon, h_sustain>>

\* the call returns; it counts as a request when run_init has begun and the
\* call names a subscene that exists
HistSwitchReturn ==
    /\ switch_scene_subscene("ctl")
    /\ IF pc["rt"] \notin {"off", "init"} /\ h_req # <<-1, -1>>
            /\ TargetExists(h_req, new_scene', new_subscene')
       THEN h_phase' = "requested" /\ h_req' = h_req
       ELSE h_phase' = "none" /\ h_req' = <<-1, -1>>
    /\ UNCHANGED <<h_noteon, h_sustain>>

NextHist ==
    \/ \E i \in 0 .. MaxSceneId : NoHist(add_scene(i, FALSE, FALSE))
    \/ NoHist(SetupDone)
    \/ NoHist(start)
    \/ \E s \in SceneArgs, ss \in SubsceneArgs : NoHist(run_init(s, ss))
    \/ \E ev \in HistEvents : HistCycle(ev)
    \/ HistOutput
    \/ \E s \in SceneArgs, ss \in SubsceneArgs : HistSwitchCall(s, ss)
    \/ HistSwitchReturn
    \/ NoHist(pss_check("rt"))
    \/ NoHist(callback_return("rt"))
    \/ NoHist(pss_scene_num("rt"))
    \/ NoHist(pss_subscene_num("rt"))
    \/ NoHist(pss_lookup("rt"))
    \/ NoHist(pss_exit("rt"))
    \/ NoHist(pss_init("rt"))
    \/ NoHist(pss_store("rt"))
    \/ NoHist(pss_clear_scene("rt"))
    \/ NoHist(pss_clear_subscene("rt"))

SpecHist == Init /\ [][NextHist]_vars

\* SpecSustain: SpecHist with sustain presses and releases as the inbound
\* events.
SustainEvents == {Ctrl(0, 64, 127), Ctrl(0, 64, 0)}

NextSustain ==
    \/ \E i \in 0 .. MaxSceneId : NoHist(add_scene(i, FALSE, FALSE))
    \/ NoHist(SetupDone)
    \/ NoHist(start)
    \/ \E s \in SceneArgs, ss \in SubsceneArgs : NoHist(run_init(s, ss))
    \/ \E ev \in SustainEvents : HistCycle(ev)
    \/ HistOutput
    \/ \E s \in SceneArgs, ss \in SubsceneArgs : HistSwitchCall(s, ss)
    \/ HistSwitchReturn
    \/ NoHist(pss_check("rt"))
    \/ NoHist(callback_return("rt"))
    \/ NoHist(pss_scene_num("rt"))
    \/ NoHist(pss_subscene_num("rt"))
    \/ NoHist(pss_lookup("rt"))
    \/ NoHist(pss_exit("rt"))
    \/ NoHist(pss_init("rt"))
    \/ NoHist(pss_store("rt"))
    \/ NoHist(pss_clear_scene("rt"))
    \/ NoHist(pss_clear_subscene("rt"))

SpecSustain == Init /\ [][NextSustain]_vars

\* SpecTrack: the real-time thread and the control thread's switch_scene
\* calls, with the history of the NoteOn and sustain keys kept but not that
\* of the requests.  The control thread asks for scenes and leaves the
\* subscene open; the inbound events include a NoteOff of a key (note 61)
\* of which no NoteOn ever arrives.
TrackEvents == {NoteOn(0, 60, 100), NoteOff(0, 60), NoteOff(0, 61)}

NextTrack ==
    \/ \E i \in 0 .. MaxSceneId : NoHist(add_scene(i, FALSE, FALSE))
    \/ NoHist(SetupDone)
    \/ NoHist(start)
    \/ \E s \in SceneArgs, ss \in SubsceneArgs : NoHist(run_init(s, ss))
    \/ \E ev \in TrackEvents : HistCycle(ev)
    \/ NoHist(output_events("rt"))
    \/ \E s \in 0 .. MaxSceneId : NoHist(switch_scene_scene("ctl", s, -1))
    \/ NoHist(switch_scene_subscene("ctl"))
    \/ NoHist(pss_check("rt"))
    \/ NoHist(callback_return("rt"))
    \/ NoHist(pss_scene_num("rt"))
    \/ NoHist(pss_subscene_num("rt"))
    \/ NoHist(pss_lookup("rt"))
    \/ NoHist(pss_exit("rt"))
    \/ NoHist(pss_init("rt"))
    \/ NoHist(pss_store("rt"))
    \/ NoHist(pss_clear_scene("rt"))
    \/ NoHist(pss_clear_subscene("rt"))

SpecTrack == Init /\ [][NextTrack]_vars

\* SpecStart: configuration, start and run_init to its end, with no cycle
\* and no switch_scene call; h_phase records that run_init was given
\* initial_scene = -1.
HistInit(initial_scene, initial_subscene) ==
    /\ run_init(initial_scene, initial_subscene)
    /\ h_phase' = IF initial_scene = -1 THEN "first" ELSE "none"
    /\ UNCHANGED <<h_noteon, h_sustain, h_req>>

NextStart ==
    \/ \E i \in 0 .. MaxSceneId, rites \in BOOLEAN :
            NoHist(add_scene(i, rites, rites))
    \/ NoHist(set_processing(<<"ctrl">>, <<"pre">>, <<"post">>))
    \/ NoHist(SetupDone)
    \/ NoHist(start)
    \/ \E s \in SceneArgs, ss \in SubsceneArgs : HistInit(s, ss)
    \/ NoHist(output_events("rt"))
    \/ NoHist(pss_check("rt"))
    \/ NoHist(callback_return("rt"))
    \/ NoHist(pss_scene_num("rt"))
    \/ NoHist(pss_subscene_num("rt"))
    \/ NoHist(pss_lookup("rt"))
    \/ NoHist(pss_exit("rt"))
    \/ NoHist(pss_init("rt"))
    \/ NoHist(pss_store("rt"))
    \/ NoHist(pss_clear_scene("rt"))
    \/ NoHist(pss_clear_subscene("rt"))

SpecStart == Init /\ [][NextStart]_vars

\* SpecCallback: the real-time thread with a scene-switch callback that
\* may call switch_scene, and a control thread that calls switch_scene only
\* while no thread is inside the critical section.  h_req records what the
\* callback asked for, h_phase that it did so in the switch under way.  A
\* thread that has entered switch_scene goes on to its end.
CallbackEvents == {Program(0, 1)}

CallbackSwitchCall(s, ss) ==
    /\ switch_scene_scene("rt", s, ss)
    /\ h_req' = <<s, ss>>
    /\ h_phase' = "callback"
    /\ UNCHANGED <<h_noteon, h_sustain>>

CallbackOutput ==
    /\ output_events("rt")
    /\ h_req' = <<-1, -1>>
    /\ h_phase' = "none"
    /\ UNCHANGED <<h_noteon, h_sustain>>

NextCallback ==
    \/ \E i \in 0 .. MaxSceneId : NoHist(add_scene(i, FALSE, FALSE))
    \/ NoHist(SetupDone)
    \/ NoHist(start)
    \/ \E s \in SceneArgs, ss \in SubsceneArgs : NoHist(run_init(s, ss))
    \/ \E ev \in CallbackEvents : NoHist(run_cycle(ev))
    \/ CallbackOutput
    \/ \E s \in SceneArgs, ss \in SubsceneArgs :
            mutex = "none" /\ NoHist(switch_scene_scene("ctl", s, ss))
    \/ mutex = "none" /\ NoHist(switch_scene_subscene("ctl"))
    \/ \E s \in SceneArgs, ss \in SubsceneArgs : CallbackSwitchCall(s, ss)
    \/ NoHist(switch_scene_subscene("rt"))
    \/ NoHist(pss_check("rt"))
    \/ NoHist(callback_return("rt"))
    \/ NoHist(pss_scene_num("rt"))
    \/ NoHist(pss_subscene_num("rt"))
    \/ NoHist(pss_lookup("rt"))
    \/ NoHist(pss_exit("rt"))
    \/ NoHist(pss_init("rt"))
    \/ NoHist(pss_store("rt"))
    \/ NoHist(pss_clear_scene("rt"))
    \/ NoHist(pss_clear_subscene("rt"))

SpecCallback ==
    /\ Init /\ [][NextCallback]_vars
    /\ WF_vars(NoHist(switch_scene_subscene("rt")))

\* SpecSanitize: the real-time thread fed with events whose values lie
\* inside and outside their ranges, and the control thread's switch_scene
\* calls for a scene.
Aftertouch(ch, val) == MidiEvent("AFTERTOUCH", 0, ch, 0, 0, 0, val)

SanitizeEvents ==
    {PitchBend(0, 20000), PitchBend(0, -9000), NoteOn(0, 60, 200),
     NoteOn(0, 60, 100), Ctrl(0, 7, 64), Ctrl(0, 7, 200), Aftertouch(0, 64)}

NextSanitize ==
    \/ \E i \in 0 .. MaxSceneId : NoHist(add_scene(i, FALSE, FALSE))
    \/ NoHist(SetupDone)
    \/ NoHist(start)
    \/ \E s \in SceneArgs, ss \in SubsceneArgs : NoHist(run_init(s, ss))
    \/ \E ev \in SanitizeEvents : NoHist(run_cycle(ev))
    \/ NoHist(output_events("rt"))
    \/ \E s \in 0 .. MaxSceneId : NoHist(switch_scene_scene("ctl", s, -1))
    \/ NoHist(switch_scene_subscene("ctl"))
    \/ NoHist(pss_check("rt"))
    \/ NoHist(callback_return("rt"))
    \/ NoHist(pss_scene_num("rt"))
    \/ NoHist(pss_subscene_num("rt"))
    \/ NoHist(pss_lookup("rt"))
    \/ NoHist(pss_exit("rt"))
    \/ NoHist(pss_init("rt"))
    \/ NoHist(pss_store("rt"))
    \/ NoHist(pss_clear_scene("rt"))
    \/ NoHist(pss_clear_subscene("rt"))

SpecSanitize == Init /\ [][NextSanitize]_vars

(* ------------------------------------------------------------------ claims *)
\* what an event of a buffer came from: the first patch it was run through
Role(e) == e.via[1][1]
Passthrough(e) == Role(e) \in {"pre", "patch"}

\* the events of buf are in the order given by rank
InOrder(buf, rank(_)) ==
    \A i, j \in DOMAIN buf : i < j => rank(buf[i]) <= rank(buf[j])

\* thread t has just left label a for label b
Steps(t, a, b) == pc[t] = a /\ pc'[t] = b

\* C2 as stated: in the buffer a cycle hands to the backend the exit patch's
\* output comes first, then the init patch's output, then the passthrough of
\* the input event.
ClaimedRank(e) ==
    CASE Role(e) = "exit" -> 0
      [] Role(e) = "init" -> 1
      [] OTHER -> 2
C2_ExitInitThenPassthrough ==
    pc["rt"] = "output" => InOrder(buffer, ClaimedRank)

\* C2 amended: the buffer a cycle hands to the backend holds the pipeline's
\* output for the input event first (the ctrl patch's copy, then the
\* passthrough), then the exit patch's output, then the init patch's output.
CycleRank(e) ==
    CASE Role(e) = "ctrl" -> 0
      [] Passthrough(e) -> 1
      [] Role(e) = "exit" -> 2
      [] Role(e) = "init" -> 3
C2_PassthroughThenExitInit ==
    pc["rt"] = "output" => InOrder(buffer, CycleRank)

\* C2 witness: a cycle ends with a passthrough, an exit patch's output and an
\* init patch's output in its buffer
C2_Witness ==
    /\ pc["rt"] = "output"
    /\ \E i, j, k \in DOMAIN buffer :
            /\ Passthrough(buffer[i])
            /\ Role(buffer[j]) = "exit"
            /\ Role(buffer[k]) = "init"

\* C4 as stated: a switch applied, while a scene is current, with no scene
\* (no subscene) requested leaves current_scene (current_subscene) as it was.
C4_MinusOneKeepsAxis ==
    [][\A t \in Threads :
        (Steps(t, "pss_store", "pss_clear") /\ current_scene # -1) =>
            /\ new_scene = -1 => current_scene' = current_scene
            /\ new_subscene = -1 => current_subscene' = current_subscene]_vars

\* C4 amended: a switch applied while no scene is requested leaves
\* current_scene as it was; a switch applied while no subscene is requested
\* selects subscene 0 of the target scene, whatever current_subscene was.
C4_MinusOneKeepsSceneResetsSubscene ==
    [][\A t \in Threads : Steps(t, "pss_store", "pss_clear") =>
            /\ new_scene = -1 => current_scene' = current_scene
            /\ new_subscene = -1 => current_subscene' = 0]_vars

\* C4 witness: while subscene 1 is current, a switch with a scene and no
\* subscene requested is about to be stored, and its target is subscene 0
C4_Witness ==
    /\ pc["rt"] = "pss_store"
    /\ new_subscene = -1 /\ new_scene # -1
    /\ current_subscene = 1
    /\ subscene_num = 0

\* the Scene that is current
CurrentSceneObj == scenes[current_scene][current_subscene + 1]

\* C6: when a switch is applied, the exit patch of the still current
\* subscene (if a scene is current and it has one) has put its output in the
\* buffer, the init patch of the target (if it has one) has put its output
\* after it, and neither step has changed current_patch, current_scene or
\* current_subscene: they change only afterwards, in the store.
C6_ExitThenInitThenStore ==
    [][\A t \in Threads :
        /\ (pc[t] \in {"pss_exit", "pss_init"} /\ pc'[t] # pc[t])
                => UNCHANGED current_vars
        /\ Steps(t, "pss_exit", "pss_init") =>
                \A i \in DOMAIN BufOf(t)' : Role(BufOf(t)'[i]) # "init"
        /\ Steps(t, "pss_store", "pss_clear") =>
            LET b == BufOf(t)
                has_exit == current_scene # -1
                                /\ CurrentSceneObj.exit_patch # NULL
                has_init == scene.init_patch # NULL
                n_exit == IF has_init THEN Len(b) - 1 ELSE Len(b)
            IN  /\ has_init => /\ Len(b) >= 1
                               /\ b[Len(b)].via[1] = scene.init_patch
                /\ has_exit => /\ n_exit >= 1
                               /\ b[n_exit].via[1] = CurrentSceneObj.exit_patch
                /\ current_patch' = scene.patch]_vars

\* C6 witness: a switch between two scenes is about to be stored, with the
\* exit patch's output and the init patch's output in the buffer
C6_Witness ==
    /\ pc["rt"] = "pss_store"
    /\ current_scene # -1 /\ scene.patch # current_patch
    /\ \E i, j \in DOMAIN buffer :
            /\ i < j
            /\ Role(buffer[i]) = "exit"
            /\ Role(buffer[j]) = "init"

\* C9 as stated: once run_init has returned, whatever initial_scene
\* (-1 or registered) and initial_subscene it was given, current_patch is
\* not null when the real-time thread is ready to dispatch an event.
C9_CurrentPatchSetAfterInit ==
    pc["rt"] = "idle" => current_patch # NULL

\* the pending fields name a subscene that exists
ValidTarget(ns, nss) ==
    /\ has_scene(ns)
    /\ (IF nss # -1 THEN nss ELSE 0) >= 0
    /\ (IF nss # -1 THEN nss ELSE 0) < Len(scenes[ns])

\* C10 as stated: line 356 never clears a requested scene of a valid target
\* that has not been applied.
C10_RequestNeverLost ==
    [][\A t \in Threads :
        (Steps(t, "pss_clear", "pss_clear2") /\ new_scene # -1
                /\ ValidTarget(new_scene, new_subscene))
            => current_scene = new_scene]_vars

\* C1 as stated: the NoteOff of a key is dispatched through the patch that
\* was current when the latest NoteOn of that key was dispatched, and it
\* removes the key's tracking entry.  (h_noteon loses a key exactly in the
\* step that dispatches a NoteOff of that key.)
C1_NoteOffPinned ==
    [][\A k \in DOMAIN h_noteon :
        k \notin DOMAIN h_noteon' =>
            /\ patch' = h_noteon[k]
            /\ k \notin DOMAIN noteon_patches']_vars

\* C3 as stated: at the end of the first cycle begun after switch_scene(s,
\* ss) returned with an existing target pending, current_scene = s if
\* s # -1 and current_subscene = ss if ss # -1.
C3_SwitchSeenByNextCycle ==
    (pc["rt"] = "output" /\ h_phase = "cycle") =>
        /\ h_req[1] # -1 => current_scene = h_req[1]
        /\ h_req[2] # -1 => current_subscene = h_req[2]

\* an index of a subscene that exists
ValidIndex(n, sn) == has_scene(n) /\ sn >= 0 /\ sn < Len(scenes[n])

\* C5 as stated: a switch whose target does not exist (unknown scene id, or
\* a subscene index out of bounds, negative ones included) goes from the
\* lookup straight to the clearing of the pending fields, changes neither
\* current_patch, current_scene, current_subscene nor a buffer, and leaves
\* both pending fields -1 when it returns.
C5_InvalidTargetIsNoop ==
    [][\A t \in Threads :
        /\ (pc[t] = "pss_lookup" /\ ~ValidIndex(scene_num, subscene_num)) =>
                /\ fault' = fault
                /\ pc'[t] # pc[t] =>
                        /\ pc'[t] = "pss_clear"
                        /\ UNCHANGED <<current_vars, buffer, pe_buffer>>
        /\ Steps(t, "pss_clear2", RetLabel(t)) =>
                new_scene' = -1 /\ new_subscene' = -1]_vars

\* C7 as stated: while a thread holds the process mutex, no other thread
\* writes the pending fields, and run_async does not test them.
C7_PendingOnlyUnderMutex ==
    [][mutex # "none" =>
        /\ pending_vars' # pending_vars => pc'[mutex] # pc[mutex]
        /\ ~Steps("async", "idle", "lock")]_vars

\* C8 as stated: every event process_event returns that came from the
\* pre, matched, post, init or exit patches passes sanitize_event and is
\* clamped as sanitize_event clamps it.
C8_ProcessEventOutputSanitized ==
    pc["ctl"] = "pe_ret" =>
        \A i \in DOMAIN v :
            Role(v[i]) # "ctrl" =>
                /\ sanitize_event(v[i]).keep
                /\ sanitize_event(v[i]).ev = v[i]

\* C11 as stated: the release (param 64, value 0) of a sustain key is
\* dispatched through the patch that was current when the latest press
\* (param 64, value 127) of that key was dispatched, and removes the key's
\* entry; a release of a key that has not been pressed is dispatched through
\* current_patch.  (h_sustain loses a key exactly in the step that
\* dispatches a release of that key.)
C11_SustainPinned ==
    [][/\ \A k \in DOMAIN h_sustain :
            k \notin DOMAIN h_sustain' =>
                /\ patch' = h_sustain[k]
                /\ k \notin DOMAIN sustain_patches'
       /\ \A ev \in SustainEvents :
            (HistCycle(ev) /\ ev.ctrl.value = 0
                    /\ make_sustainkey(ev) \notin DOMAIN h_sustain)
                => patch' = current_patch]_vars

\* C12: the step that dispatches a NoteOff adds no key to the note-on table
\* and leaves the sustain table as it is; when the NoteOff's key has no
\* entry, or no NoteOn of the key is outstanding (none was dispatched, or a
\* NoteOff has consumed it), the NoteOff is dispatched through current_patch
\* and the note-on table is unchanged as well.
C12_UnmatchedNoteOff ==
    [][\A ev \in TrackEvents :
        (ev.type = "NOTEOFF" /\ HistCycle(ev)) =>
            /\ DOMAIN noteon_patches' \subseteq DOMAIN noteon_patches
            /\ sustain_patches' = sustain_patches
            /\ (make_notekey(ev) \notin DOMAIN noteon_patches
                    \/ make_notekey(ev) \notin DOMAIN h_noteon)
                => /\ patch' = current_patch
                   /\ noteon_patches' = noteon_patches]_vars

\* C12 witness: the NoteOff of note 61, of which there is no NoteOn, has
\* been dispatched through the current patch while note 60 is tracked under
\* another patch
C12_Witness ==
    /\ pc["rt"] = "pss_check"
    /\ patch = current_patch /\ patch # NULL
    /\ \E i \in DOMAIN buffer :
            buffer[i].type = "NOTEOFF" /\ buffer[i].note.note = 61
    /\ <<0, 60, 0>> \in DOMAIN noteon_patches
    /\ noteon_patches[<<0, 60, 0>>] # current_patch

\* C13 as stated: once run_init, given initial_scene = -1 and any
\* initial_subscene, has returned, current_scene is the smallest registered
\* scene id.
C13_StartsOnSmallestSceneId ==
    (pc["rt"] = "idle" /\ h_phase = "first" /\ DOMAIN scenes # {}) =>
        \A i \in DOMAIN scenes : current_scene <= i /\ has_scene(current_scene)

\* C14 as stated: with no scene registered run_init, whatever initial_scene
\* it is given, ends in the failed assertion, and has changed none of
\* current_patch, current_scene, current_subscene, the pending fields, the
\* tracking tables and the buffer.
C14_EmptyTableAsserts ==
    [][\A s \in SceneArgs, ss \in SubsceneArgs :
        (DOMAIN scenes = {} /\ HistInit(s, ss)) =>
            /\ fault' = "assert"
            /\ UNCHANGED <<current_vars, pending_vars, tracking_vars,
                           buffer>>]_vars

\* C15 as stated: the step of a cycle that runs the pipeline on the inbound
\* event while a switch is pending leaves current_patch, current_scene and
\* current_subscene as they are, dispatches the event (a NoteOff apart,
\* which follows its NoteOn) through the patch that is current then, and
\* pins a NoteOn to that patch.
C15_PipelineBeforeSwitch ==
    [][\A ev \in HistEvents :
        (HistCycle(ev) /\ pending_vars # <<-1, -1>>) =>
            /\ UNCHANGED current_vars
            /\ ev.type # "NOTEOFF" => patch' = current_patch
            /\ ev.type = "NOTEON" =>
                   /\ make_notekey(ev) \in DOMAIN noteon_patches'
                   /\ noteon_patches'[make_notekey(ev)] = current_patch]_vars

\* C16 as stated: the step that dispatches a NoteOn sets the tracking entry
\* of its key to the patch that is current, whether or not the key had an
\* entry.
C16_NoteOnOverwrites ==
    [][\A ev \in HistEvents :
        (HistCycle(ev) /\ ev.type = "NOTEON") =>
            /\ make_notekey(ev) \in DOMAIN noteon_patches'
            /\ noteon_patches'[make_notekey(ev)] = h_noteon'[make_notekey(ev)]]_vars

\* an event that sanitize_event keeps and leaves as it is
Sanitized(e) == sanitize_event(e).keep /\ sanitize_event(e).ev = e

\* the via of every event of b is that of the pipeline: a copy the ctrl
\* patch has worked on has been through nothing else and stands before all
\* other events; an event from the inbound event has been through pre (if
\* set), one scene patch, post (if set), and sanitize; an event from a Dummy
\* has been through one init or exit patch, post (if set), and sanitize
PipelineShaped(b) ==
    LET opt(p) == IF p # NULL THEN <<p>> ELSE <<>>
    IN  \A i \in DOMAIN b :
            LET e == b[i]
            IN  \/ /\ ctrl_patch # NULL
                   /\ e.via = <<ctrl_patch>>
                   /\ \A j \in 1 .. i - 1 : b[j].via = <<ctrl_patch>>
                \/ /\ \E p \in {e.via[k] : k \in DOMAIN e.via} :
                        /\ p[1] = "patch"
                        /\ e.via = opt(pre_patch) \o <<p>> \o opt(post_patch)
                   /\ Sanitized(e)
                \/ /\ \E p \in {e.via[k] : k \in DOMAIN e.via} :
                        /\ p[1] \in {"init", "exit"}
                        /\ e.via = <<p>> \o opt(post_patch)
                   /\ Sanitized(e)

\* C17 as stated: what a cycle hands to the backend, and what process_event
\* returns, is made of events that have been through the stages of the
\* pipeline in its order.
C17_PipelineOrder ==
    /\ pc["rt"] = "output" => PipelineShaped(buffer)
    /\ pc["ctl"] = "pe_ret" => PipelineShaped(v)

Clamped(lo, hi, x) == Max(lo, Min(hi, x))

\* C19 as stated: a cycle that dispatches a PitchBend, NoteOn, Control or
\* Aftertouch event of a valid port, channel and number hands the backend
\* that one event, with its own value brought into range: a PitchBend's
\* value into -8192 .. 8191, a note's velocity into 0 .. 127, a Control's or
\* Aftertouch's value into 0 .. 127.
C19_SanitizeClampsOwnField ==
    [][\A ev \in SanitizeEvents :
        (run_cycle(ev) /\ fault' = "none") =>
            /\ Len(buffer') = 1
            /\ buffer'[1].type = ev.type
            /\ CASE ev.type = "PITCHBEND" ->
                        buffer'[1].ctrl.value =
                            Clamped(-8192, 8191, ev.ctrl.value)
                 [] ev.type = "NOTEON" ->
                        buffer'[1].note.velocity =
                            Clamped(0, 127, ev.note.velocity)
                 [] OTHER ->
                        buffer'[1].ctrl.value =
                            Clamped(0, 127, ev.ctrl.value)]_vars

\* C20 as stated: between calls, whenever current_patch is set,
\* (current_scene, current_subscene) names a registered subscene and
\* current_patch is that subscene's main patch; and current_scene is -1
\* exactly when current_subscene is -1.
C20_StateConsistent ==
    (mutex = "none" /\ pc["rt"] \in {"off", "init", "idle"}
                    /\ pc["async"] = "idle" /\ pc["ctl"] \in {"setup", "ready"}) =>
        /\ current_patch # NULL =>
                /\ has_scene(current_scene)
                /\ current_subscene \in 0 .. Len(scenes[current_scene]) - 1
                /\ current_patch =
                        scenes[current_scene][current_subscene + 1].patch
        /\ (current_scene = -1) <=> (current_subscene = -1)

====
